---- MODULE Spec2Model ----
(***************************************************************************)
(* Model of src/explainability.py: the background sampler, the explainer   *)
(* cache, the global explanation endpoint and the counterfactual search.   *)
(*                                                                         *)
(* Numbers.  Predictions, scaled feature values and standard deviations    *)
(* are integers.  A quotient of two of them (reduction_percent) is kept    *)
(* exact as a fraction [num, den]; den = 0 with num > 0 is the +inf that   *)
(* numpy's float64 division yields.  Time is counted in whole days since   *)
(* 2000-01-01.                                                             *)
(***************************************************************************)
EXTENDS Integers, Sequences, FiniteSets, TLC

VARIABLES
    cf_in,        \* explain_counterfactual: the request and the loaded components
    cf_resp,      \* explain_counterfactual: the response (status, body)
    cf_accepted,  \* explain_counterfactual: `candidates` before sort and truncation
    bg_in,        \* generate_background_data: n_samples and the loaded components
    bg_out,       \* generate_background_data: what the call ended in
    g_comps,      \* the loaded model, scaler, schema and SHAP_AVAILABLE
    now,          \* datetime.now(), in days since 2000-01-01
    cache_file,   \* the content of CACHE_FILE
    g_calls,      \* the number of explain_global calls made
    g_resp,       \* the last explain_global call: time, load, save and response
    g_prev,       \* the last successful response before it
    g_saved,      \* the last entry an explain_global call saved in full
    c_file,       \* concurrent requests: CACHE_FILE as a sequence of written pieces
    c_req,        \* concurrent requests: each request's position and response
    c_closed      \* concurrent requests: the writers, in the order they closed the file

cf_vars == <<cf_in, cf_resp, cf_accepted>>
bg_vars == <<bg_in, bg_out>>
g_vars == <<g_comps, now, cache_file, g_calls, g_resp, g_prev, g_saved>>
c_vars == <<c_file, c_req, c_closed>>
vars == <<cf_in, cf_resp, cf_accepted, bg_in, bg_out,
          g_comps, now, cache_file, g_calls, g_resp, g_prev, g_saved,
          c_file, c_req, c_closed>>

None == "None"

\* Python's None where a record or a sequence is expected (TLC compares only
\* values of one kind): the model that is not loaded, the schema that is not
\* loaded.
NoModel == [kind |-> None, coef |-> <<>>, intercept |-> 0]

NoColumns == <<None>>

(***************************************************************************)
(* Bounds of the model.                                                    *)
(***************************************************************************)
MaxCoef == 1       \* model coefficients range over -MaxCoef..MaxCoef
MaxIntercept == 1  \* model intercepts range over -MaxIntercept..MaxIntercept
MaxX == 1          \* scaled feature values range over 0..MaxX
MaxSamples == 2    \* n_samples ranges over 0..MaxSamples
MaxCalls == 2      \* explain_global is called at most MaxCalls times in a run
MaxElapsed == 8    \* a run lasts at most MaxElapsed days
StartDay == 9801   \* the day a run starts on (2026-11-01)
NumRequests == 3   \* concurrent explain_global requests
NumPieces == 2     \* write calls that carry one saved payload to the file
MaxHalfStd == 1    \* feature standard deviations range over 0, 2, .., 2*MaxHalfStd

(***************************************************************************)
(* Small arithmetic helpers.                                               *)
(***************************************************************************)
Abs(i) == IF i < 0 THEN -i ELSE i

Min(a, b) == IF a < b THEN a ELSE b

RECURSIVE SumSeq(_)
SumSeq(s) == IF s = <<>> THEN 0 ELSE Head(s) + SumSeq(Tail(s))

\* Exact square root of a perfect square (np.linalg.norm of a vector with one
\* non-zero component).
Isqrt(n) == CHOOSE r \in 0..n : r * r = n

Norm(v) == Isqrt(SumSeq([i \in 1..Len(v) |-> v[i] * v[i]]))

\* Fractions: float64 quotients kept exact.
Frac(n, d) == [num |-> n, den |-> d]

FracNorm(a) == IF a.den < 0 THEN Frac(-a.num, -a.den) ELSE a

FracLT(a, b) ==
    LET x == FracNorm(a)
        y == FracNorm(b)
    IN  x.num * y.den < y.num * x.den

FracEQ(a, b) == ~FracLT(a, b) /\ ~FracLT(b, a)

FracNeg(a) == Frac(-a.num, a.den)

(***************************************************************************)
(* The feature tables of generate_background_data.                         *)
(***************************************************************************)
numeric_features ==
    {"Age", "Service time", "Work load Average/day ",
     "Transportation expense", "Distance from Residence to Work"}

categorical_defaults ==
    {"Education", "Son", "Month of absence", "Day of the week", "Seasons",
     "Hit target", "Disciplinary failure", "Social drinker", "Social smoker",
     "Pet", "Reason for absence"}

Range(s) == {s[i] : i \in 1..Len(s)}

\* What generate_background_data(n_samples) ends in, by its control flow:
\*   "none"   the early return of line 48,
\*   "raise"  df.iloc[0] on a frame without rows (n_samples = 0, or no known
\*            feature in the schema, which leaves synthetic_data empty),
\*   "scaled" / "unscaled"  the returns of lines 118 and 120.
BackgroundOutcome(feature_columns, scaler, n_samples) ==
    IF feature_columns = NoColumns \/ feature_columns = <<>> THEN "none"
    ELSE IF n_samples = 0
            \/ Range(feature_columns) \cap (numeric_features \cup categorical_defaults) = {}
         THEN "raise"
    ELSE IF scaler # None THEN "scaled"
    ELSE "unscaled"

\* The hardcoded ranges (min_val, max_val) of the numeric features.
NumericRange(feat) ==
    CASE feat = "Age" -> <<25, 60>>
      [] feat = "Service time" -> <<1, 20>>
      [] feat = "Work load Average/day " -> <<200, 350>>
      [] feat = "Transportation expense" -> <<100, 400>>
      [] feat = "Distance from Residence to Work" -> <<1, 50>>

\* The hardcoded value lists of the categorical features.
CategoricalValues(feat) ==
    CASE feat = "Education" -> {1, 2, 3}
      [] feat = "Son" -> {0, 1, 2, 3}
      [] feat = "Month of absence" -> 1..12
      [] feat = "Day of the week" -> {2, 3, 4, 5, 6}
      [] feat = "Seasons" -> {1, 2, 3, 4}
      [] feat = "Hit target" -> {0, 1}
      [] feat = "Disciplinary failure" -> {0, 1}
      [] feat = "Social drinker" -> {0, 1}
      [] feat = "Social smoker" -> {0, 1}
      [] feat = "Pet" -> {0, 1}
      [] feat = "Reason for absence" -> {0, 5, 10, 15, 20, 25}

\* What one draw for a feature can give.  np.random.uniform(min_val, max_val)
\* is represented by the two ends of its half-open range, np.random.choice by
\* every listed value.
DrawValues(feat) ==
    IF feat \in numeric_features
    THEN {NumericRange(feat)[1], NumericRange(feat)[2] - 1}
    ELSE CategoricalValues(feat)

\* The keys of `sample`: the known features that are in the schema.
SampleKeys(feature_columns) ==
    Range(feature_columns) \cap (numeric_features \cup categorical_defaults)

\* All the `sample` dicts one pass of the loop can build.
Samples(feature_columns) ==
    LET keys == SampleKeys(feature_columns)
        all == UNION {DrawValues(f) : f \in keys}
    IN  {s \in [keys -> all] : \A f \in keys : s[f] \in DrawValues(f)}

\* The external preprocess_input: the raw dict as a row aligned to the schema,
\* a column the dict lacks filled with 0.
preprocess_input(feature_columns, sample) ==
    [i \in 1..Len(feature_columns) |->
        IF feature_columns[i] \in DOMAIN sample THEN sample[feature_columns[i]] ELSE 0]

\* The external fitted scaler: an affine map applied to every entry.
ScalerTransform(rows) ==
    [r \in 1..Len(rows) |-> [i \in 1..Len(rows[r]) |-> 2 * rows[r][i] - 1]]

\* background_samples after the loop: the first row initialises, np.vstack
\* appends each further one.
RECURSIVE StackSamples(_, _, _)
StackSamples(feature_columns, samples, i) ==
    IF i = 0 THEN <<>>
    ELSE Append(StackSamples(feature_columns, samples, i - 1),
                preprocess_input(feature_columns, samples[i]))

BgResult(kind, rows) == [kind |-> kind, rows |-> rows]

\* generate_background_data(n_samples); samples[i] is the dict drawn in pass i.
GenerateBackgroundData(feature_columns, scaler, n_samples, samples) ==
    LET outcome == BackgroundOutcome(feature_columns, scaler, n_samples)
        background_samples == StackSamples(feature_columns, samples, n_samples)
    IN  CASE outcome = "none" -> BgResult("none", <<>>)
          [] outcome = "raise" -> BgResult("raise", <<>>)
          [] outcome = "scaled" -> BgResult("matrix", ScalerTransform(background_samples))
          [] outcome = "unscaled" -> BgResult("matrix", background_samples)

BgSchemas ==
    {NoColumns, <<>>, <<"Age">>, <<"Age", "Hit target">>, <<"ID">>, <<"ID", "Education">>}

BgIdle == BgResult("idle", <<>>)

BgInit ==
    /\ bg_in \in [feature_columns : BgSchemas, scaler : {None, "scaler"},
                  n_samples : 0..MaxSamples]
    /\ bg_out = BgIdle

generate_background_data ==
    /\ bg_out.kind = "idle"
    /\ \E samples \in [1..bg_in.n_samples -> Samples(bg_in.feature_columns)] :
          bg_out' = GenerateBackgroundData(bg_in.feature_columns, bg_in.scaler,
                                           bg_in.n_samples, samples)
    /\ UNCHANGED bg_in

(***************************************************************************)
(* The external model: predict(vector) -> scalar.                          *)
(***************************************************************************)
Predict(model, x) ==
    IF model.kind = "linear"
    THEN model.intercept + SumSeq([i \in 1..Len(x) |-> model.coef[i] * x[i]])
    ELSE model.intercept + SumSeq([i \in 1..Len(x) |-> model.coef[i] * Abs(x[i])])

(***************************************************************************)
(* explain_counterfactual (POST /explain/cf).                              *)
(***************************************************************************)
actionable_features ==
    <<"Age", "Service time", "Work load Average/day ",
      "Transportation expense", "Distance from Residence to Work">>

\* The multipliers -0.5, -1.0, -2.0, 0.5, 1.0, 2.0 of the inner loop, doubled.
DeltaMult2 == <<-1, -2, -4, 1, 2, 4>>

TopK == 5

DefaultTargetTenths == 8

BackgroundSize == 100

\* list.index: the first position holding e.
IndexOf(s, e) == CHOOSE i \in 1..Len(s) : s[i] = e /\ \A j \in 1..(i - 1) : s[j] # e

\* feature_mapping, in insertion order: the actionable features of the schema.
FeatureMapping(feature_columns) ==
    LET present == SelectSeq(actionable_features, LAMBDA f : f \in Range(feature_columns))
    IN  [k \in 1..Len(present) |->
            [feature |-> present[k], idx |-> IndexOf(feature_columns, present[k])]]

\* A slip in the acceptance test: an unchanged prediction is accepted too.
AcceptCandidate_Unchanged(new_pred, original_pred) == new_pred <= original_pred

\* The acceptance test of the inner loop.
AcceptCandidate(new_pred, original_pred) == new_pred < original_pred

\* reduction * 100, with reduction = (original_pred - new_pred) / original_pred.
ReductionPercent(original_pred, new_pred) ==
    Frac((original_pred - new_pred) * 100, original_pred)

\* One pass of the inner loop body: feature fm, multiplier number k.
Trial(model, scaled, original_pred, fm, std, k) ==
    LET current_value == scaled[fm.idx]
        delta == (DeltaMult2[k] * std) \div 2
        new_value == current_value + delta
        modified_scaled == [scaled EXCEPT ![fm.idx] = new_value]
        new_pred == Predict(model, modified_scaled)
        change_vector == [i \in 1..Len(scaled) |-> modified_scaled[i] - scaled[i]]
    IN  [feature |-> fm.feature,
         original_value |-> current_value,
         suggested_value |-> new_value,
         change |-> delta,
         new_prediction |-> new_pred,
         reduction_percent |-> ReductionPercent(original_pred, new_pred),
         distance |-> Norm(change_vector)]

\* `candidates` as the two nested loops leave it: features in feature_mapping
\* order, multipliers in list order, the accepted trials only.  The guard
\* feat_idx >= len(scaled_data[0]) skips a feature.
Candidates(model, scaled, original_pred, mapping, stds) ==
    LET NMult == Len(DeltaMult2)
        fmOf(p) == mapping[((p - 1) \div NMult) + 1]
        kOf(p) == ((p - 1) % NMult) + 1
        trials == [p \in 1..(Len(mapping) * NMult) |->
                     [skip |-> fmOf(p).idx > Len(scaled),
                      t |-> IF fmOf(p).idx > Len(scaled) THEN None
                            ELSE Trial(model, scaled, original_pred, fmOf(p),
                                       stds[fmOf(p).idx], kOf(p))]]
        kept == SelectSeq(trials,
                    LAMBDA e : ~e.skip /\ AcceptCandidate(e.t.new_prediction, original_pred))
    IN  [i \in 1..Len(kept) |-> kept[i].t]

\* The sort key (-reduction_percent, distance), compared as Python compares tuples.
KeyLT(a, b) ==
    \/ FracLT(FracNeg(a.reduction_percent), FracNeg(b.reduction_percent))
    \/ /\ FracEQ(a.reduction_percent, b.reduction_percent)
       /\ a.distance < b.distance

\* list.sort is stable: an element goes before the first one with a greater key.
InsertByKey(sorted, c) ==
    LET later == {i \in 1..Len(sorted) : KeyLT(c, sorted[i])}
        pos == IF later = {} THEN Len(sorted) + 1
               ELSE CHOOSE i \in later : \A j \in later : i <= j
    IN  SubSeq(sorted, 1, pos - 1) \o <<c>> \o SubSeq(sorted, pos, Len(sorted))

RECURSIVE SortFrom(_, _)
SortFrom(sorted, rest) ==
    IF rest = <<>> THEN sorted
    ELSE SortFrom(InsertByKey(sorted, Head(rest)), Tail(rest))

\* A slip in the ranking: the list is left in loop order.
SortCandidates_Unsorted(candidates) == candidates

SortCandidates(candidates) == SortFrom(<<>>, candidates)

TopCandidates(candidates) == SubSeq(candidates, 1, Min(TopK, Len(candidates)))

CfError(status, msg) ==
    [status |-> status, error |-> msg, original_prediction |-> 0,
     target_prediction |-> Frac(0, 1), candidates |-> <<>>]

CfLoaded(in) == in.model # NoModel /\ in.scaler # None /\ in.feature_columns # NoColumns

\* The whole handler; stds is what the freshly drawn background gives as
\* np.std of each mapped column.
CounterfactualResponse(in, stds) ==
    IF ~CfLoaded(in) THEN CfError(500, "Model not loaded")
    ELSE IF ~in.has_input THEN CfError(400, "Missing \"input\" field in request")
    ELSE
      LET original_pred == Predict(in.model, in.scaled_data)
          target_pred == Frac(original_pred * in.target_tenths, 10)
          mapping == FeatureMapping(in.feature_columns)
          outcome == BackgroundOutcome(in.feature_columns, in.scaler, BackgroundSize)
      IN  IF outcome = "none" THEN CfError(500, "Failed to generate background data")
          ELSE IF outcome = "raise"
               THEN CfError(400, "single positional indexer is out-of-bounds")
          ELSE [status |-> 200, error |-> None,
                original_prediction |-> original_pred,
                target_prediction |-> target_pred,
                candidates |-> TopCandidates(SortCandidates(
                    Candidates(in.model, in.scaled_data, original_pred, mapping, stds)))]

CfAccepted(in, stds) ==
    IF CounterfactualResponse(in, stds).status # 200 THEN <<>>
    ELSE Candidates(in.model, in.scaled_data, Predict(in.model, in.scaled_data),
                    FeatureMapping(in.feature_columns), stds)

\* Inputs of the counterfactual search.
Stds == {2 * h : h \in 0..MaxHalfStd}

CfSchemas == {<<"Age", "Service time">>, <<"Education", "Age">>, <<"ID">>}

ModelsFor(F) ==
    [kind : {"linear", "abs"},
     coef : [1..F -> (-MaxCoef)..MaxCoef],
     intercept : (-MaxIntercept)..MaxIntercept]

CfRequests ==
    UNION {[model : ModelsFor(Len(fc)), scaler : {"scaler"}, feature_columns : {fc},
            has_input : BOOLEAN, scaled_data : [1..Len(fc) -> 0..MaxX],
            target_tenths : {DefaultTargetTenths}] : fc \in CfSchemas}
    \cup
    [model : {NoModel}, scaler : {None, "scaler"}, feature_columns : {NoColumns, <<"Age">>},
     has_input : {TRUE}, scaled_data : {<<0>>}, target_tenths : {DefaultTargetTenths}]

CfIdle == CfError(0, None)

CfInit ==
    /\ cf_in \in CfRequests
    /\ cf_resp = CfIdle
    /\ cf_accepted = <<>>

explain_counterfactual ==
    /\ cf_resp.status = 0
    /\ \E stds \in [1..Len(cf_in.scaled_data) -> Stds] :
          /\ cf_resp' = CounterfactualResponse(cf_in, stds)
          /\ cf_accepted' = CfAccepted(cf_in, stds)
    /\ UNCHANGED cf_in

(***************************************************************************)
(* The explainer cache.                                                    *)
(***************************************************************************)
CACHE_TTL_DAYS == 7

\* The default '2000-01-01' of cache_data.get('timestamp', ...).
DefaultTimestampDay == 0

\* An explanation as stored and returned.  kind: "mapping" a dict, "other" a
\* JSON value that is no dict, None a missing or null 'explanation'.
Explanation(feature_importance) ==
    [kind |-> "mapping", feature_importance |-> feature_importance,
     explainer_type |-> "LinearExplainer", sample_size |-> BackgroundSize,
     cached |-> FALSE]

NoExplanation ==
    [kind |-> None, feature_importance |-> <<>>, explainer_type |-> None,
     sample_size |-> 0, cached |-> FALSE]

OtherExplanation == [NoExplanation EXCEPT !.kind = "other"]

\* The file.  json: "corrupt" text that json.load rejects (an empty or cut-off
\* file too), "nonobject" a JSON value without .get, "object" a dict whose
\* 'timestamp' is absent, unparsable ("bad") or an ISO date ("iso", on `day`).
FileMissing ==
    [exists |-> FALSE, json |-> "corrupt", ts |-> "absent", day |-> 0,
     explanation |-> NoExplanation]

FileCorrupt == [FileMissing EXCEPT !.exists = TRUE]

FileNonObject == [FileCorrupt EXCEPT !.json = "nonobject"]

FileObject(ts, day, explanation) ==
    [exists |-> TRUE, json |-> "object", ts |-> ts, day |-> day,
     explanation |-> explanation]

\* A slip at the boundary: an entry exactly CACHE_TTL_DAYS old already expires.
Expired_AtBoundary(cache_day, today) == today - cache_day >= CACHE_TTL_DAYS

\* datetime.now() - cache_time > timedelta(days=CACHE_TTL_DAYS)
Expired(cache_day, today) == today - cache_day > CACHE_TTL_DAYS

\* A slip in the default: a missing 'timestamp' counts as written today.
load_cached_global_explanation_default_now(file, today) ==
    IF ~file.exists THEN NoExplanation
    ELSE IF file.json # "object" THEN NoExplanation
    ELSE IF file.ts = "bad" THEN NoExplanation
    ELSE LET cache_day == IF file.ts = "absent" THEN today ELSE file.day
         IN  IF Expired(cache_day, today) THEN NoExplanation
             ELSE file.explanation

\* load_cached_global_explanation(): every exception ends in None.
load_cached_global_explanation(file, today) ==
    IF ~file.exists THEN NoExplanation
    ELSE IF file.json # "object" THEN NoExplanation
    ELSE IF file.ts = "bad" THEN NoExplanation
    ELSE LET cache_day == IF file.ts = "absent" THEN DefaultTimestampDay ELSE file.day
         IN  IF Expired(cache_day, today) THEN NoExplanation
             ELSE file.explanation

\* A slip in the save: the entry is written without its 'timestamp'.
save_cached_global_explanation_no_timestamp(file, explanation, today, io) ==
    CASE io = "ok" -> FileObject("absent", 0, explanation)
      [] io = "open_fails" -> file
      [] io = "write_fails" -> FileCorrupt

\* save_cached_global_explanation(explanation).  io is what the file system
\* does: "ok"; "open_fails" open() raises and the file stays as it was;
\* "write_fails" open() has truncated the file and json.dump raises part-way.
\* The exception is swallowed in each case.
save_cached_global_explanation(file, explanation, today, io) ==
    CASE io = "ok" -> FileObject("iso", today, explanation)
      [] io = "open_fails" -> file
      [] io = "write_fails" -> FileCorrupt

(***************************************************************************)
(* explain_global (GET /explain/global).                                   *)
(***************************************************************************)
HasCoef(model) == model.kind = "linear"

\* A slip in get_shap_explainer: the coef_ test is dropped.
get_shap_explainer_no_coef_test(comps, explainer_ok) ==
    IF ~comps.shap_available THEN "None"
    ELSE IF comps.model = NoModel \/ comps.scaler = None THEN "None"
    ELSE LET outcome == BackgroundOutcome(comps.feature_columns, comps.scaler, BackgroundSize)
         IN  IF outcome = "raise" THEN "raise"
             ELSE IF outcome = "none" \/ ~explainer_ok THEN "None"
             ELSE "explainer"

\* get_shap_explainer(): "explainer", "None", or "raise" when
\* generate_background_data raises (the call is outside the try).
\* explainer_ok: whether shap.LinearExplainer(model, background) succeeds.
get_shap_explainer(comps, explainer_ok) ==
    IF ~comps.shap_available THEN "None"
    ELSE IF comps.model = NoModel \/ comps.scaler = None THEN "None"
    ELSE IF HasCoef(comps.model)
         THEN LET outcome == BackgroundOutcome(comps.feature_columns, comps.scaler,
                                               BackgroundSize)
              IN  IF outcome = "raise" THEN "raise"
                  ELSE IF outcome = "none" \/ ~explainer_ok THEN "None"
                  ELSE "explainer"
    ELSE "None"

\* feature_importance before the sort: mean |SHAP| of feature i over the
\* background, for a linear model |coef_i| times the mean absolute deviation
\* devs[i] of column i.
FeatureImportance(comps, devs) ==
    [i \in 1..Len(comps.feature_columns) |->
        [feature |-> comps.feature_columns[i],
         mean_abs_shap |-> Abs(comps.model.coef[i]) * devs[i]]]

\* sort(key=mean_abs_shap, reverse=True): stable, equal entries keep their order.
InsertByImportance(sorted, e) ==
    LET smaller == {i \in 1..Len(sorted) : sorted[i].mean_abs_shap < e.mean_abs_shap}
        pos == IF smaller = {} THEN Len(sorted) + 1
               ELSE CHOOSE i \in smaller : \A j \in smaller : i <= j
    IN  SubSeq(sorted, 1, pos - 1) \o <<e>> \o SubSeq(sorted, pos, Len(sorted))

RECURSIVE SortImportanceFrom(_, _)
SortImportanceFrom(sorted, rest) ==
    IF rest = <<>> THEN sorted
    ELSE SortImportanceFrom(InsertByImportance(sorted, Head(rest)), Tail(rest))

SortByImportance(fi) == SortImportanceFrom(<<>>, fi)

GLoaded(comps) ==
    comps.model # NoModel /\ comps.scaler # None /\ comps.feature_columns # NoColumns

\* What one call leaves: the response and what it did to the cache.
\* file: the file it found; load: "skipped", "miss" or "hit", and loaded:
\* what the load returned; save: "none" or the io of its save, and
\* file_after: the file it left.
GResult(call, today, status, error, body, load, save, file, file_after) ==
    [call |-> call, time |-> today, status |-> status, error |-> error,
     body |-> body, load |-> load,
     loaded |-> IF load = "skipped" THEN NoExplanation
                ELSE load_cached_global_explanation(file, today),
     save |-> save, file |-> file, file_after |-> file_after]

GError(call, today, status, error, load, file) ==
    GResult(call, today, status, error, NoExplanation, load, "none", file, file)

\* The whole handler.  devs, explainer_ok and io are what the random
\* background, the SHAP library and the file system give this call.
ExplainGlobal(comps, file, today, call, devs, explainer_ok, io) ==
    IF ~GLoaded(comps) THEN GError(call, today, 500, "Model not loaded", "skipped", file)
    ELSE
      LET cached == load_cached_global_explanation(file, today)
      IN  IF cached.kind = "mapping"
          THEN GResult(call, today, 200, None, [cached EXCEPT !.cached = TRUE],
                       "hit", "none", file, file)
          ELSE IF cached.kind = "other"
          THEN GError(call, today, 500, "object is not a mapping", "hit", file)
          ELSE IF ~comps.shap_available
          THEN GError(call, today, 500, "SHAP library not available", "miss", file)
          ELSE
            LET explainer == get_shap_explainer(comps, explainer_ok)
                outcome == BackgroundOutcome(comps.feature_columns, comps.scaler,
                                             BackgroundSize)
            IN  IF explainer = "raise"
                THEN GError(call, today, 500, "single positional indexer is out-of-bounds",
                            "miss", file)
                ELSE IF explainer = "None"
                THEN GError(call, today, 500, "Failed to create SHAP explainer", "miss", file)
                ELSE IF outcome = "none"
                THEN GError(call, today, 500, "Failed to generate background data",
                            "miss", file)
                ELSE IF outcome = "raise"
                THEN GError(call, today, 500, "single positional indexer is out-of-bounds",
                            "miss", file)
                ELSE
                  LET explanation ==
                          Explanation(SortByImportance(FeatureImportance(comps, devs)))
                  IN  GResult(call, today, 200, None, explanation, "miss", io, file,
                              save_cached_global_explanation(file, explanation, today, io))

\* The components a run starts with.
\* The column deviations two different random backgrounds give.
BackgroundDevs(F) == {SubSeq(d, 1, F) : d \in {<<1, 2>>, <<3, 1>>}}

SaveOutcomes == {"ok", "open_fails", "write_fails"}

GlobalSchema == <<"Age", "Education">>

LinearModel == [kind |-> "linear", coef |-> <<1, 2>>, intercept |-> 0]

NonLinearModel == [kind |-> "abs", coef |-> <<1, 2>>, intercept |-> 0]

GComps(model, scaler, feature_columns, shap_available) ==
    [model |-> model, scaler |-> scaler, feature_columns |-> feature_columns,
     shap_available |-> shap_available]

GlobalComponents ==
    {GComps(m, "scaler", GlobalSchema, a) : m \in {LinearModel, NonLinearModel},
                                           a \in BOOLEAN}
    \cup {GComps(NoModel, "scaler", GlobalSchema, TRUE),
          GComps(LinearModel, None, GlobalSchema, TRUE),
          GComps(NonLinearModel, "scaler", NoColumns, TRUE),
          GComps([LinearModel EXCEPT !.coef = <<>>], "scaler", <<>>, TRUE),
          GComps([LinearModel EXCEPT !.coef = <<1>>], "scaler", <<"ID">>, TRUE)}

\* The files a run can start with: none, or one left by an earlier run or
\* planted for a test (back-dated and post-dated entries included).
PlantedExplanation ==
    Explanation(<<[feature |-> "Education", mean_abs_shap |-> 9],
                  [feature |-> "Age", mean_abs_shap |-> 3]>>)

PlantedFiles ==
    {FileMissing, FileCorrupt, FileNonObject,
     FileObject("absent", 0, PlantedExplanation),
     FileObject("bad", 0, PlantedExplanation),
     FileObject("iso", StartDay - 3, NoExplanation),
     FileObject("iso", StartDay - 3, OtherExplanation)}
    \cup {FileObject("iso", StartDay + d, PlantedExplanation) :
              d \in {-(CACHE_TTL_DAYS + 1), -CACHE_TTL_DAYS, -3, 1}}

GIdle == GError(0, 0, 0, None, "skipped", FileMissing)

NoSave == [call |-> 0, time |-> 0, feature_importance |-> <<>>]

GInit ==
    /\ g_comps \in GlobalComponents
    /\ now = StartDay
    /\ cache_file \in PlantedFiles
    /\ g_calls = 0
    /\ g_resp = GIdle
    /\ g_prev = GIdle
    /\ g_saved = NoSave

\* GET /explain/global.
explain_global ==
    /\ g_calls < MaxCalls
    /\ \E devs \in BackgroundDevs(Len(g_comps.feature_columns)),
          explainer_ok \in BOOLEAN, io \in SaveOutcomes :
          LET r == ExplainGlobal(g_comps, cache_file, now, g_calls + 1,
                                 devs, explainer_ok, io)
          IN  /\ g_resp' = r
              /\ cache_file' = r.file_after
              /\ g_saved' = IF r.save = "ok"
                            THEN [call |-> r.call, time |-> now,
                                  feature_importance |-> r.body.feature_importance]
                            ELSE g_saved
    /\ g_prev' = IF g_resp.status = 200 THEN g_resp ELSE g_prev
    /\ g_calls' = g_calls + 1
    /\ UNCHANGED <<g_comps, now>>

\* A day passes.
Tick ==
    /\ now < StartDay + MaxElapsed
    /\ now' = now + 1
    /\ UNCHANGED <<g_comps, cache_file, g_calls, g_resp, g_prev, g_saved>>

(***************************************************************************)
(* Concurrent explain_global requests on the unlocked cache file.  A linear *)
(* model is loaded.  A payload reaches the file in NumPieces writes, each   *)
(* at the writer's own file offset; all payloads have the same length.      *)
(* Piece 1 carries the timestamp, the later pieces the explanation.         *)
(***************************************************************************)
Requests == 1..NumRequests

Hole == [writer |-> 0, piece |-> 0]

Piece(w, k) == [writer |-> w, piece |-> k]

\* json.load on what the file holds: a dict only if every piece is there, in
\* place; the pieces need not come from one writer.
ParsesAsJson(file) ==
    /\ Len(file) = NumPieces
    /\ \A k \in 1..NumPieces : file[k].piece = k

\* The writers whose pieces make up the parsed payload, piece by piece.
PayloadOf(file) == [k \in 1..NumPieces |-> file[k].writer]

NoPayload == [k \in 1..NumPieces |-> 0]

\* write() of one piece at offset `at` (0-based): the file grows, zero-filled,
\* when it is shorter than the offset.
WriteAt(file, at, cell) ==
    LET len == IF Len(file) > at + 1 THEN Len(file) ELSE at + 1
    IN  [i \in 1..len |->
            IF i = at + 1 THEN cell
            ELSE IF i <= Len(file) THEN file[i]
            ELSE Hole]

CReq(pc, offset, status, cached, payload) ==
    [pc |-> pc, offset |-> offset, status |-> status, cached |-> cached,
     payload |-> payload]

CInit ==
    /\ c_file = <<>>
    /\ c_req = [r \in Requests |-> CReq("load", 0, 0, FALSE, NoPayload)]
    /\ c_closed = <<>>

\* explain_global up to the cache check: a hit answers the request, anything
\* else (no file, a cut-off file) goes on to compute.
CLoad(r) ==
    /\ c_req[r].pc = "load"
    /\ c_req' = [c_req EXCEPT ![r] =
                    IF ParsesAsJson(c_file)
                    THEN CReq("done", 0, 200, TRUE, PayloadOf(c_file))
                    ELSE CReq("open", 0, 0, FALSE, NoPayload)]
    /\ UNCHANGED <<c_file, c_closed>>

\* save_cached_global_explanation: open(CACHE_FILE, 'w') truncates the file.
COpen(r) ==
    /\ c_req[r].pc = "open"
    /\ c_file' = <<>>
    /\ c_req' = [c_req EXCEPT ![r].pc = "write", ![r].offset = 0]
    /\ UNCHANGED c_closed

\* json.dump: the next piece goes out at this writer's offset.
CWrite(r) ==
    /\ c_req[r].pc = "write"
    /\ c_req[r].offset < NumPieces
    /\ c_file' = WriteAt(c_file, c_req[r].offset, Piece(r, c_req[r].offset + 1))
    /\ c_req' = [c_req EXCEPT ![r].offset = @ + 1]
    /\ UNCHANGED c_closed

\* The file is closed and the fresh explanation returned, cached = false.
CClose(r) ==
    /\ c_req[r].pc = "write"
    /\ c_req[r].offset = NumPieces
    /\ c_req' = [c_req EXCEPT ![r] =
                    CReq("done", NumPieces, 200, FALSE, [k \in 1..NumPieces |-> r])]
    /\ c_closed' = Append(c_closed, r)
    /\ UNCHANGED c_file

(***************************************************************************)
(* The specifications.  Each one runs one component from its inputs and     *)
(* leaves the variables of the others at rest.                             *)
(***************************************************************************)
CfRest ==
    /\ cf_in = [model |-> NoModel, scaler |-> None, feature_columns |-> NoColumns,
                has_input |-> FALSE, scaled_data |-> <<>>,
                target_tenths |-> DefaultTargetTenths]
    /\ cf_resp = CfIdle
    /\ cf_accepted = <<>>

BgRest ==
    /\ bg_in = [feature_columns |-> NoColumns, scaler |-> None, n_samples |-> 0]
    /\ bg_out = BgIdle

GRest ==
    /\ g_comps = GComps(NoModel, None, NoColumns, FALSE)
    /\ now = StartDay
    /\ cache_file = FileMissing
    /\ g_calls = 0
    /\ g_resp = GIdle
    /\ g_prev = GIdle
    /\ g_saved = NoSave

CRest ==
    /\ c_file = <<>>
    /\ c_req = [r \in Requests |-> CReq("done", 0, 0, FALSE, NoPayload)]
    /\ c_closed = <<>>

Init == GInit /\ CfRest /\ BgRest /\ CRest

Next ==
    \/ explain_global /\ UNCHANGED <<cf_vars, bg_vars, c_vars>>
    \/ Tick /\ UNCHANGED <<cf_vars, bg_vars, c_vars>>

Spec == Init /\ [][Next]_vars

InitCF == CfInit /\ BgRest /\ GRest /\ CRest

NextCF == explain_counterfactual /\ UNCHANGED <<bg_vars, g_vars, c_vars>>

SpecCF == InitCF /\ [][NextCF]_vars

InitBG == BgInit /\ CfRest /\ GRest /\ CRest

NextBG == generate_background_data /\ UNCHANGED <<cf_vars, g_vars, c_vars>>

SpecBG == InitBG /\ [][NextBG]_vars

InitConc == CInit /\ CfRest /\ BgRest /\ GRest

NextConc ==
    \/ \E r \in Requests : CLoad(r) /\ UNCHANGED <<cf_vars, bg_vars, g_vars>>
    \/ \E r \in Requests : COpen(r) /\ UNCHANGED <<cf_vars, bg_vars, g_vars>>
    \/ \E r \in Requests : CWrite(r) /\ UNCHANGED <<cf_vars, bg_vars, g_vars>>
    \/ \E r \in Requests : CClose(r) /\ UNCHANGED <<cf_vars, bg_vars, g_vars>>

SpecConc == InitConc /\ [][NextConc]_vars

(***************************************************************************)
(* Claims about explain_counterfactual, checked under SpecCF.              *)
(***************************************************************************)
CfOk == cf_resp.status = 200

\* C1: in every successful response each returned candidate has
\* new_prediction strictly below original_prediction, and its
\* reduction_percent is (original_prediction - new_prediction) /
\* original_prediction * 100.
C1_CounterfactualSound ==
    CfOk =>
        \A i \in 1..Len(cf_resp.candidates) :
            LET c == cf_resp.candidates[i]
                orig == cf_resp.original_prediction
            IN  /\ c.new_prediction < orig
                /\ FracEQ(c.reduction_percent,
                          Frac((orig - c.new_prediction) * 100, orig))

\* A successful response with a candidate, where another trial was turned down.
C1_Witness ==
    /\ CfOk
    /\ Len(cf_resp.candidates) >= 1
    /\ cf_resp.original_prediction # 0
    /\ Len(cf_accepted) < Len(DeltaMult2) * Len(FeatureMapping(cf_in.feature_columns))

\* C2: every successful response has at most 5 candidates, each with
\* reduction_percent strictly above 0, whatever original_prediction is.
C2_PositiveReduction ==
    CfOk =>
        /\ Len(cf_resp.candidates) <= 5
        /\ \A i \in 1..Len(cf_resp.candidates) :
               FracLT(Frac(0, 1), cf_resp.candidates[i].reduction_percent)

\* a ranks strictly ahead of b: larger reduction_percent, or the same with a
\* smaller distance.
RanksAhead(a, b) ==
    \/ FracLT(b.reduction_percent, a.reduction_percent)
    \/ /\ FracEQ(a.reduction_percent, b.reduction_percent)
       /\ a.distance < b.distance

\* C3: the returned candidates are the first 5 (or all) of the accepted ones
\* in the order reduction_percent descending, distance ascending: no returned
\* entry ranks ahead of its predecessor, and no accepted candidate left out
\* ranks ahead of a returned one.
C3_TopFiveRanked ==
    CfOk =>
        LET r == cf_resp.candidates
            leftOut == Range(cf_accepted) \ Range(r)
        IN  /\ Len(r) = Min(5, Len(cf_accepted))
            /\ Range(r) \subseteq Range(cf_accepted)
            /\ Cardinality(Range(r)) = Len(r)
            /\ \A i \in 1..(Len(r) - 1) : ~RanksAhead(r[i + 1], r[i])
            /\ \A c \in leftOut : \A i \in 1..Len(r) : ~RanksAhead(c, r[i])

\* More than 5 candidates were accepted, two of them tied on reduction_percent
\* at different distances.
C3_Witness ==
    /\ CfOk
    /\ Len(cf_accepted) > 5
    /\ Len(cf_resp.candidates) = 5
    /\ \E i, j \in 1..Len(cf_accepted) :
          /\ FracEQ(cf_accepted[i].reduction_percent, cf_accepted[j].reduction_percent)
          /\ cf_accepted[i].distance < cf_accepted[j].distance

(***************************************************************************)
(* Claims about generate_background_data, checked under SpecBG.            *)
(***************************************************************************)
BgReturned == bg_out.kind # "idle"

\* C7: for every n (0 and 1 included) and every non-empty schema,
\* generate_background_data(n) returns a matrix of exactly n rows, each as
\* long as the schema, or None.
C7_ExactlyNRows ==
    (BgReturned /\ bg_in.feature_columns # NoColumns /\ bg_in.feature_columns # <<>>) =>
        \/ bg_out.kind = "none"
        \/ /\ bg_out.kind = "matrix"
           /\ Len(bg_out.rows) = bg_in.n_samples
           /\ \A r \in 1..Len(bg_out.rows) :
                  Len(bg_out.rows[r]) = Len(bg_in.feature_columns)

\* C8: generate_background_data returns None whenever the schema is empty or
\* missing or the scaler is unavailable, and never lets an exception out.
C8_UnavailableNeverRaises ==
    BgReturned =>
        /\ bg_out.kind # "raise"
        /\ (\/ bg_in.feature_columns = NoColumns
            \/ bg_in.feature_columns = <<>>
            \/ bg_in.scaler = None) => bg_out.kind = "none"

(***************************************************************************)
(* Claims about the cache and explain_global, checked under Spec.          *)
(***************************************************************************)
GLoadDone == g_resp.call > 0 /\ g_resp.load # "skipped"

DatedEntry(file) == file.exists /\ file.json = "object" /\ file.ts = "iso"

\* C4: a load returns the stored explanation exactly when the entry's
\* timestamp is no more than 7 days before the time of the load; an entry
\* older than that is a miss, and stays one at every later load.
C4_SevenDayExpiry ==
    /\ [](GLoadDone /\ DatedEntry(g_resp.file) =>
            g_resp.loaded = IF g_resp.time - g_resp.file.day <= 7
                            THEN g_resp.file.explanation
                            ELSE NoExplanation)
    /\ [][(/\ GLoadDone /\ DatedEntry(g_resp.file)
           /\ g_resp.time - g_resp.file.day > 7
           /\ cache_file = g_resp.file
           /\ g_resp'.call > g_resp.call
           /\ g_resp'.load # "skipped")
          => g_resp'.loaded = NoExplanation]_vars

\* An entry that was served 3 days old is a miss 5 days later, 8 days old.
C4_Witness ==
    /\ GLoadDone /\ DatedEntry(g_resp.file)
    /\ g_resp.time - g_resp.file.day = 8
    /\ g_resp.loaded = NoExplanation
    /\ g_prev.load = "hit" /\ g_prev.file = g_resp.file

\* C5 as stated: a successful call less than 7 days after the previous
\* successful call returns cached = true and that call's feature_importance.
C5_SecondCallCached ==
    (g_resp.status = 200 /\ g_prev.status = 200 /\ g_resp.time - g_prev.time < 7) =>
        /\ g_resp.body.cached
        /\ g_resp.body.feature_importance = g_prev.body.feature_importance

\* C5 amended: once a call has computed the explanation and saved it, every
\* later call less than 7 days after that save returns cached = true and
\* the feature_importance that was saved.
C5_CachedWithinTtlOfSave ==
    (g_saved.call > 0 /\ g_resp.call > g_saved.call /\ g_resp.time - g_saved.time < 7) =>
        /\ g_resp.status = 200
        /\ g_resp.body.cached
        /\ g_resp.body.feature_importance = g_saved.feature_importance

\* A call 6 days after the save is served from the cache.
C5_Witness ==
    /\ g_saved.call > 0 /\ g_resp.call > g_saved.call
    /\ g_resp.time - g_saved.time = 6
    /\ g_resp.load = "hit"

NonLinear(comps) == comps.model # NoModel /\ comps.model.kind # "linear"

\* C6 as stated: with a model that exposes no coefficients every
\* explain_global call returns 500 'Failed to create SHAP explainer'.
C6_NonLinearAlwaysFails ==
    (g_resp.call > 0 /\ NonLinear(g_comps)) =>
        g_resp.status = 500 /\ g_resp.error = "Failed to create SHAP explainer"

\* C6 amended: with such a model no call computes a fresh success body, and
\* every call that finds no valid cache entry, with model, scaler and schema
\* loaded and SHAP available, returns 500 'Failed to create SHAP explainer';
\* a valid cache entry is still served.
C6_NonLinearFailsOnMiss ==
    (g_resp.call > 0 /\ NonLinear(g_comps)) =>
        /\ g_resp.status = 200 => (g_resp.load = "hit" /\ g_resp.body.cached)
        /\ (g_resp.load = "miss" /\ g_comps.shap_available) =>
               (g_resp.status = 500 /\ g_resp.error = "Failed to create SHAP explainer")

\* A non-linear model is refused after an earlier call was served from a
\* cache entry that has expired since.
C6_Witness ==
    /\ g_resp.call > 0 /\ NonLinear(g_comps)
    /\ g_resp.status = 500 /\ g_resp.error = "Failed to create SHAP explainer"
    /\ g_prev.status = 200

UnreadableFile(file) ==
    \/ ~file.exists
    \/ file.json = "corrupt"
    \/ file.json = "nonobject"
    \/ file.json = "object" /\ file.ts \in {"bad", "absent"}

\* C9: a load returns None for a missing file, a corrupt or non-object file,
\* an unparsable or absent timestamp; and a call whose save fails still
\* returns its freshly computed explanation with status 200 and cached = false.
C9_CacheFailuresSilent ==
    /\ (GLoadDone /\ UnreadableFile(g_resp.file)) =>
           (g_resp.loaded = NoExplanation /\ g_resp.load = "miss")
    /\ (g_resp.call > 0 /\ g_resp.save \in {"open_fails", "write_fails"}) =>
           /\ g_resp.status = 200
           /\ g_resp.error = None
           /\ g_resp.body.kind = "mapping"
           /\ ~g_resp.body.cached
           /\ Len(g_resp.body.feature_importance) = Len(g_comps.feature_columns)

\* A call found an entry without timestamp, computed afresh, and its save
\* failed after truncating the file.
C9_Witness ==
    /\ GLoadDone
    /\ g_resp.file.json = "object" /\ g_resp.file.ts = "absent"
    /\ g_resp.save = "write_fails"
    /\ g_resp.status = 200
    /\ cache_file = FileCorrupt

(***************************************************************************)
(* Claim about concurrent requests, checked under SpecConc.                *)
(***************************************************************************)
AllDone == \A r \in Requests : c_req[r].pc = "done"

\* The payload one writer saved: its own pieces, all of them.
SavedBy(w) == [k \in 1..NumPieces |-> w]

\* C10: under every interleaving a request that finds a partly written file
\* goes on as on a cache miss; no request returns a payload that no writer
\* saved in full; and once every request is done the file holds the whole
\* payload of the writer that closed it last.
C10_TornFileIsMissLastWriterWins ==
    /\ \A r \in Requests :
           c_req[r].pc = "done" =>
               /\ c_req[r].status = 200
               /\ \E w \in Requests : c_req[r].payload = SavedBy(w)
    /\ (AllDone /\ c_closed # <<>>) =>
           /\ ParsesAsJson(c_file)
           /\ PayloadOf(c_file) = SavedBy(c_closed[Len(c_closed)])

====
